---- MODULE Spec2Model ----
(***************************************************************************)
(* scripts/upload-json.js: a command line tool that reads a JSON document  *)
(* from inline data, a file or standard input, validates and reformats it  *)
(* and saves it to a storage bucket.                                       *)
(*                                                                         *)
(* JavaScript strings are sequences of one-character strings.  A value of  *)
(* the option mapping is a record [t, s]: t = "str" with the text s,       *)
(* t = "bool" for the boolean true, t = "undef" for undefined.             *)
(*                                                                         *)
(* An action is one turn of the event loop: main from its start to its     *)
(* first pending await, the settling of a pending await together with      *)
(* everything main does until the next one, or one event of standard       *)
(* input.  Spec explores whole runs, SpecStdin the same runs with more     *)
(* events on standard input, SpecParse the first turn of main on longer    *)
(* command lines.                                                          *)
(***************************************************************************)
EXTENDS Integers, Sequences, FiniteSets, TLC

\* ---------------------------------------------------------------- bounds
\* longest command line (process.argv.slice(2)) a run is explored on
MaxArgs == 2
\* most events standard input emits in one run
MaxEvents == 2
\* the same where the reading of standard input is explored
MaxStdinEvents == 4
\* longest command line the parsing alone is explored on
MaxParseArgs == 3

\* ---------------------------------------------------------------- values
Str(s) == [t |-> "str", s |-> s]
True == [t |-> "bool", s |-> <<>>]
Undefined == [t |-> "undef", s |-> <<>>]

\* JavaScript truthiness of a string, true or undefined
Truthy(v) == v.t = "bool" \/ (v.t = "str" /\ Len(v.s) > 0)

\* String(v)
String(v) == IF v.t = "bool" THEN <<"t", "r", "u", "e">> ELSE v.s

\* ---------------------------------------------------------------- strings
startsWith(s, p) == Len(s) >= Len(p) /\ SubSeq(s, 1, Len(p)) = p

\* s.slice(n), n counted from 0
slice(s, n) == SubSeq(s, n + 1, Len(s))

\* s.slice(0, n)
sliceTo(s, n) == SubSeq(s, 1, n)

\* s.indexOf(c), counted from 0, -1 when c does not occur
indexOf(s, c) ==
  IF \E i \in 1..Len(s) : s[i] = c
  THEN (CHOOSE i \in 1..Len(s) : s[i] = c /\ \A j \in 1..(i - 1) : s[j] # c) - 1
  ELSE -1

RECURSIVE stripLeadingDashes(_)
\* s.replace(/^-+/, '')
stripLeadingDashes(s) ==
  IF Len(s) > 0 /\ s[1] = "-" THEN stripLeadingDashes(Tail(s)) ELSE s

lowerChar(c) ==
  CASE c = "B" -> "b"
    [] c = "D" -> "d"
    [] c = "H" -> "h"
    [] OTHER -> c

\* s.toLowerCase() over the letters the explored command lines use
toLowerCase(s) == [i \in 1..Len(s) |-> lowerChar(s[i])]

\* ---------------------------------------------------------------- normalizeKey
\* the own properties of the object literal `map`
map ==
  { << <<"b">>, "bucket" >>,
    << <<"b", "u", "c", "k", "e", "t">>, "bucket" >>,
    << <<"d">>, "destination" >>,
    << <<"d", "e", "s", "t">>, "destination" >>,
    << <<"d", "e", "s", "t", "i", "n", "a", "t", "i", "o", "n">>, "destination" >>,
    << <<"i">>, "input" >>,
    << <<"i", "n", "p", "u", "t">>, "input" >>,
    << <<"p">>, "project" >>,
    << <<"p", "r", "o", "j", "e", "c", "t">>, "project" >>,
    << <<"c", "r", "e", "d", "e", "n", "t", "i", "a", "l", "s">>, "credentials" >>,
    << <<"k", "e", "y", "-", "f", "i", "l", "e">>, "credentials" >>,
    << <<"k", "e", "y", "f", "i", "l", "e">>, "credentials" >>,
    << <<"d", "a", "t", "a">>, "data" >>,
    << <<"s", "t", "d", "i", "n">>, "stdin" >>,
    << <<"c", "o", "m", "p", "a", "c", "t">>, "compact" >>,
    << <<"c", "a", "c", "h", "e", "-", "c", "o", "n", "t", "r", "o", "l">>, "cacheControl" >>,
    << <<"c", "a", "c", "h", "e", "c", "o", "n", "t", "r", "o", "l">>, "cacheControl" >>,
    << <<"d", "r", "y", "-", "r", "u", "n">>, "dryRun" >>,
    << <<"d", "r", "y", "r", "u", "n">>, "dryRun" >>,
    << <<"h">>, "help" >>,
    << <<"h", "e", "l", "p">>, "help" >>
  }

\* the all-lower-case properties `map` inherits from Object.prototype, with
\* the property key each inherited value turns into when used as args[key]
inherited ==
  { << <<"c", "o", "n", "s", "t", "r", "u", "c", "t", "o", "r">>, "function Object() { [native code] }" >>,
    << <<"_", "_", "p", "r", "o", "t", "o", "_", "_">>, "[object Object]" >>
  }

\* map[key]: an own property, else a property found on the prototype chain,
\* else undefined.  kind "name" is a canonical option name (a string), kind
\* "object" a truthy non-string, kind "undef" undefined.
lookup(key) ==
  IF \E e \in map : e[1] = key
  THEN [kind |-> "name", name |-> (CHOOSE e \in map : e[1] = key)[2]]
  ELSE IF \E e \in inherited : e[1] = key
  THEN [kind |-> "object", name |-> (CHOOSE e \in inherited : e[1] = key)[2]]
  ELSE [kind |-> "undef", name |-> ""]

normalizeKey(rawKey) == lookup(toLowerCase(rawKey))

\* ---------------------------------------------------------------- parseArgs
\* args[key], undefined when the key is absent
Get(options, k) == IF k \in DOMAIN options THEN options[k] ELSE Undefined

\* args[key] = value skipped when the key is already set
PutKeepFirst(options, k, v) ==
  IF k \in DOMAIN options THEN options
  ELSE [x \in (DOMAIN options) \cup {k} |-> IF x = k THEN v ELSE options[x]]

\* args[key] = value
Put(options, k, v) ==
  [x \in (DOMAIN options) \cup {k} |-> IF x = k THEN v ELSE options[x]]

EmptyArgs == [x \in {} |-> Undefined]

RECURSIVE parseLoop(_, _, _)
\* the for loop of parseArgs from index i (counted from 1) with the mapping
\* built so far
parseLoop(tokens, i, acc) ==
  IF i > Len(tokens) THEN acc
  ELSE
    LET tok0 == tokens[i]
    IN IF ~startsWith(tok0, <<"-">>) THEN parseLoop(tokens, i + 1, acc)
       ELSE
         LET token == IF ~startsWith(tok0, <<"-", "-">>)
                      THEN <<"-", "-">> \o slice(tok0, 1)
                      ELSE tok0
             withoutDashes == slice(token, 2)
             eqIndex == indexOf(withoutDashes, "=")
             rawKey == IF eqIndex # -1 THEN sliceTo(withoutDashes, eqIndex)
                       ELSE withoutDashes
             inline == IF eqIndex # -1 THEN Str(slice(withoutDashes, eqIndex + 1))
                       ELSE Undefined
             key == normalizeKey(stripLeadingDashes(rawKey))
         IN IF key.kind = "undef" THEN parseLoop(tokens, i + 1, acc)
            ELSE IF inline.t = "undef"
            THEN IF i + 1 <= Len(tokens) /\ ~startsWith(tokens[i + 1], <<"-">>)
                 THEN parseLoop(tokens, i + 2, Put(acc, key.name, Str(tokens[i + 1])))
                 ELSE parseLoop(tokens, i + 1, Put(acc, key.name, True))
            ELSE parseLoop(tokens, i + 1, Put(acc, key.name, inline))

parseArgs(tokens) == parseLoop(tokens, 1, EmptyArgs)

\* ---------------------------------------------------------------- JSON
\* JSON.parse and JSON.stringify over the fragment of JSON the explored
\* inputs are written in: the literal true, numbers written with the digit 1,
\* arrays, and the space and the line feed as white space.  A parsed value is a record
\* [k, d, e]: k = "true", k = "num" with digits d, k = "arr" with elements e.
JTrue == [k |-> "true", d |-> <<>>, e |-> <<>>]
JNum(d) == [k |-> "num", d |-> d, e |-> <<>>]
JArr(e) == [k |-> "arr", d |-> <<>>, e |-> e]
NoParse == [ok |-> FALSE, v |-> JTrue, next |-> 0]

RECURSIVE skipWs(_, _)
skipWs(s, i) == IF i <= Len(s) /\ s[i] \in {" ", "\n"} THEN skipWs(s, i + 1) ELSE i

RECURSIVE digitsEnd(_, _)
digitsEnd(s, i) == IF i <= Len(s) /\ s[i] = "1" THEN digitsEnd(s, i + 1) ELSE i

RECURSIVE parseValue(_, _)
RECURSIVE parseElements(_, _, _)
\* a value starting at position i (white space before it skipped)
parseValue(s, i0) ==
  LET i == skipWs(s, i0)
  IN IF i > Len(s) THEN NoParse
     ELSE IF s[i] = "1"
     THEN [ok |-> TRUE, v |-> JNum(SubSeq(s, i, digitsEnd(s, i) - 1)),
           next |-> digitsEnd(s, i)]
     ELSE IF i + 3 <= Len(s) /\ SubSeq(s, i, i + 3) = <<"t", "r", "u", "e">>
     THEN [ok |-> TRUE, v |-> JTrue, next |-> i + 4]
     ELSE IF s[i] = "["
     THEN LET j == skipWs(s, i + 1)
          IN IF j <= Len(s) /\ s[j] = "]"
             THEN [ok |-> TRUE, v |-> JArr(<<>>), next |-> j + 1]
             ELSE parseElements(s, i + 1, <<>>)
     ELSE NoParse

\* the elements of an array from position i, those parsed so far in acc
parseElements(s, i, acc) ==
  LET r == parseValue(s, i)
  IN IF ~r.ok THEN NoParse
     ELSE LET j == skipWs(s, r.next)
          IN IF j > Len(s) THEN NoParse
             ELSE IF s[j] = "," THEN parseElements(s, j + 1, Append(acc, r.v))
             ELSE IF s[j] = "]"
             THEN [ok |-> TRUE, v |-> JArr(Append(acc, r.v)), next |-> j + 1]
             ELSE NoParse

\* JSON.parse(text): ok is FALSE where it throws a SyntaxError
JSONparse(text) ==
  LET r == parseValue(text, 1)
  IN IF r.ok /\ skipWs(text, r.next) = Len(text) + 1
     THEN [ok |-> TRUE, v |-> r.v]
     ELSE [ok |-> FALSE, v |-> JTrue]

RECURSIVE indent(_)
indent(n) == IF n = 0 THEN <<>> ELSE <<" ">> \o indent(n - 1)

RECURSIVE stringify(_, _, _)
RECURSIVE stringifyElements(_, _, _, _)
\* JSON.stringify(v, null, spaces) at nesting depth `level`
stringify(v, spaces, level) ==
  IF v.k = "true" THEN <<"t", "r", "u", "e">>
  ELSE IF v.k = "num" THEN v.d
  ELSE IF Len(v.e) = 0 THEN <<"[", "]">>
  ELSE IF spaces = 0
  THEN <<"[">> \o stringifyElements(v.e, 1, spaces, level) \o <<"]">>
  ELSE <<"[">> \o <<"\n">> \o stringifyElements(v.e, 1, spaces, level + 1)
       \o <<"\n">> \o indent(spaces * level) \o <<"]">>

\* the elements es[i..] with their separators
stringifyElements(es, i, spaces, level) ==
  LET one == indent(spaces * level) \o stringify(es[i], spaces, level)
  IN IF i = Len(es) THEN one
     ELSE one \o (IF spaces = 0 THEN <<",">> ELSE <<",", "\n">>)
          \o stringifyElements(es, i + 1, spaces, level)

JSONstringify(v, spaces) == stringify(v, spaces, 0)

\* ---------------------------------------------------------------- preparePayload
NoPayload == [ok |-> FALSE, jsonString |-> <<>>, bytes |-> 0]

\* the number of spaces JSON.stringify indents with
spacesFor(options) == IF Truthy(Get(options, "compact")) THEN 0 ELSE 2

\* preparePayload without its try/catch: text that does not parse is passed on
preparePayloadUnchecked(rawJson, options) ==
  IF JSONparse(rawJson).ok
  THEN [ok |-> TRUE,
        jsonString |-> JSONstringify(JSONparse(rawJson).v,
                                     IF Truthy(Get(options, "compact")) THEN 0 ELSE 2),
        bytes |-> Len(rawJson)]
  ELSE [ok |-> TRUE, jsonString |-> rawJson, bytes |-> Len(rawJson)]

\* ok is FALSE where preparePayload throws 'Input is not valid JSON'; the
\* texts are ASCII, so Buffer.byteLength is the length
preparePayload(rawJson, options) ==
  LET parsed == JSONparse(rawJson)
      jsonString == JSONstringify(parsed.v, spacesFor(options))
  IN IF ~parsed.ok THEN NoPayload
     ELSE [ok |-> TRUE, jsonString |-> jsonString, bytes |-> Len(jsonString)]

\* ---------------------------------------------------------------- inferDestination
RECURSIVE stripTrailingSlashes(_)
stripTrailingSlashes(p) ==
  IF Len(p) > 0 /\ p[Len(p)] = "/" THEN stripTrailingSlashes(SubSeq(p, 1, Len(p) - 1))
  ELSE p

RECURSIVE afterLastSlash(_)
afterLastSlash(p) ==
  IF indexOf(p, "/") = -1 THEN p ELSE afterLastSlash(slice(p, indexOf(p, "/") + 1))

\* path.basename(p) of a string p on a POSIX host
basename(p) == afterLastSlash(stripTrailingSlashes(p))

\* iso.replace(/[:.]/g, '-')
replaceColonsAndDots(iso) ==
  [i \in 1..Len(iso) |-> IF iso[i] \in {":", "."} THEN "-" ELSE iso[i]]

\* inferDestination(options) when new Date().toISOString() is iso: ok is FALSE
\* where path.basename throws a TypeError (options.input is true)
inferDestination(options, iso) ==
  IF Truthy(Get(options, "destination"))
  THEN [ok |-> TRUE, v |-> Get(options, "destination")]
  ELSE IF Truthy(Get(options, "input"))
  THEN IF Get(options, "input").t = "str"
       THEN [ok |-> TRUE, v |-> Str(basename(Get(options, "input").s))]
       ELSE [ok |-> FALSE, v |-> Undefined]
  ELSE [ok |-> TRUE,
        v |-> Str(<<"d", "o", "c", "u", "m", "e", "n", "t", "-">> \o replaceColonsAndDots(iso) \o <<".", "j", "s", "o", "n">>)]

\* ---------------------------------------------------------------- inputs
\* the tokens the explored command lines are made of
Tokens ==
  { <<"-", "b", "=", "b">>, <<"-", "-", "B", "u", "c", "k", "e", "t">>,
    <<"-", "-", "d", "a", "t", "a", "=", "[", "1", "]">>, <<"-", "-", "d", "a", "t", "a", "=">>, <<"-", "-", "d", "a", "t", "a">>,
    <<"-", "-", "i", "n", "p", "u", "t", "=", "a", "/", "b">>,
    <<"-", "-", "s", "t", "d", "i", "n">>,
    <<"-", "-", "d", "r", "y", "-", "r", "u", "n", "=">>, <<"-", "d", "r", "y", "r", "u", "n">>,
    <<"-", "-", "d", "e", "s", "t", "i", "n", "a", "t", "i", "o", "n", "=">>, <<"-", "d">>,
    <<"-", "h">>, <<"-", "-", "h", "e", "l", "p", "=">>,
    <<"-", "-", "c", "o", "m", "p", "a", "c", "t">>,
    <<"-", "-", "f", "o", "o">>, <<"-", "-", "c", "o", "n", "s", "t", "r", "u", "c", "t", "o", "r">>,
    <<"d", "/", "x">> }

\* the command lines of at most n tokens
ArgvOfLen(n) == UNION { [1..k -> Tokens] : k \in 0..n }

\* what the file at options.input may hold
FileTexts == { <<"[", "1", ",", " ", "1", "]">>, <<"[", "1">> }

\* the chunks standard input may deliver
Chunks == { <<"[", "1", "]">>, <<"1">> }

\* what new Date().toISOString() may return, shortened
Clock == { <<"1", ":", "2", ":", "3", ".", "4", "Z">>, <<"5", ":", "6", ":", "7", ".", "8", "Z">> }

\* ---------------------------------------------------------------- messages
MissingBucket == "Missing required --bucket option."
NoStdinData == "No data received from stdin."
NoInput == "No JSON input provided. Use --input, --data, or pipe data via stdin."
InvalidJSON == "Input is not valid JSON"
\* the message of the TypeError path.basename throws for a non-string
PathTypeError == "The path argument must be of type string"
\* the messages of the errors the collaborators fail with
ReadFileError == "readFile failed"
StdinError == "stdin error"
SaveError == "save failed"

\* what printHelp writes
HelpText == [kind |-> "help", bytes |-> 0, bucket |-> Undefined, destination |-> Undefined]

DryRunLine(bytes, bucket, destination) ==
  [kind |-> "dry-run", bytes |-> bytes, bucket |-> bucket, destination |-> destination]

UploadedLine(bytes, bucket, destination) ==
  [kind |-> "uploaded", bytes |-> bytes, bucket |-> bucket, destination |-> destination]

\* ---------------------------------------------------------------- state
VARIABLES
  argv,         \* process.argv.slice(2)
  isTTY,        \* process.stdin.isTTY
  pc,           \* where main is: "start", "readFile", "readStdin", "save", "done"
  args,         \* the option mapping parseArgs returned
  fileReads,    \* the paths fsPromises.readFile was called with
  listeners,    \* readFromStdin attached its listeners to process.stdin
  emitted,      \* the events process.stdin emitted since, in order
  data,         \* the variable `data` of readFromStdin
  promise,      \* the promise readFromStdin returned
  rawJson,      \* what getInput resolved with
  payload,      \* what preparePayload returned
  destination,  \* what inferDestination returned
  saveCalls,    \* the calls of the storage client's save
  stdout,       \* what console.log wrote
  stderr,       \* what console.error wrote
  exitCode      \* the exit status of the process

vars == << argv, isTTY, pc, args, fileReads, listeners, emitted, data, promise,
           rawJson, payload, destination, saveCalls, stdout, stderr, exitCode >>

Pending == [state |-> "pending", value |-> <<>>]

\* the state main starts in on a command line of at most n tokens
InitOn(n) ==
  /\ argv \in ArgvOfLen(n)
  /\ isTTY \in BOOLEAN
  /\ pc = "start"
  /\ args = EmptyArgs
  /\ fileReads = <<>>
  /\ listeners = FALSE
  /\ emitted = <<>>
  /\ data = <<>>
  /\ promise = Pending
  /\ rawJson = Undefined
  /\ payload = NoPayload
  /\ destination = Undefined
  /\ saveCalls = <<>>
  /\ stdout = <<>>
  /\ stderr = <<>>
  /\ exitCode = 0

Init == InitOn(MaxArgs)

InitParse == InitOn(MaxParseArgs)

\* ---------------------------------------------------------------- getInput
\* getInput reading standard input whether or not it is a terminal
getInputAnyStdin(options, tty) ==
  IF Truthy(Get(options, "data")) THEN "data"
  ELSE IF Truthy(Get(options, "input")) THEN "file"
  ELSE "stdin"

\* the branch getInput takes: "data", "file", "stdin" or "none"
getInput(options, tty) ==
  IF Truthy(Get(options, "data")) THEN "data"
  ELSE IF Truthy(Get(options, "input")) THEN "file"
  ELSE IF Truthy(Get(options, "stdin")) \/ ~tty THEN "stdin"
  ELSE "none"

\* ---------------------------------------------------------------- main
\* a handler that prints the message and leaves process.exitCode unset
catchHandlerNoExitCode(message) == [stderr |-> <<message>>, exitCode |-> exitCode]

\* the handler main().catch installs: what is written to the error stream
\* and the exit code it sets
catchHandler(message) == [stderr |-> <<message>>, exitCode |-> 1]

\* main rejects with an error carrying `message`
Throw(message) ==
  /\ pc' = "done"
  /\ stderr' = stderr \o catchHandler(message).stderr
  /\ exitCode' = catchHandler(message).exitCode

\* the options save is called with
saveOptions(options) ==
  [resumable |-> FALSE, contentType |-> "application/json",
   cacheControl |-> IF Truthy(Get(options, "cacheControl"))
                    THEN Get(options, "cacheControl") ELSE Undefined]

\* what main decides once payload and destination are known: "dry-run" or "save"
uploadOrReport(options) == IF Truthy(Get(options, "dryRun")) THEN "dry-run" ELSE "save"

\* main from the return of `await getInput(args)` with text raw up to its
\* next await or its end; options is args, iso is what the clock reads.
\* The storage client is constructed on the way; the construction validates
\* nothing and the client is used only for the save call.
AfterInput(options, raw, iso) ==
  LET p == preparePayload(raw, options)
      d == inferDestination(options, iso)
  IN /\ rawJson' = Str(raw)
     /\ payload' = p
     /\ IF ~p.ok
        THEN /\ Throw(InvalidJSON)
             /\ UNCHANGED << destination, saveCalls, stdout >>
        ELSE IF ~d.ok
        THEN /\ Throw(PathTypeError)
             /\ UNCHANGED << destination, saveCalls, stdout >>
        ELSE /\ destination' = d.v
             /\ IF uploadOrReport(options) = "dry-run"
                THEN /\ stdout' = Append(stdout, DryRunLine(p.bytes, Get(options, "bucket"), d.v))
                     /\ pc' = "done"
                     /\ UNCHANGED << saveCalls, stderr, exitCode >>
                ELSE /\ saveCalls' = Append(saveCalls,
                                       [body |-> p.jsonString,
                                        bucket |-> Get(options, "bucket"),
                                        file |-> d.v,
                                        options |-> saveOptions(options)])
                     /\ pc' = "save"
                     /\ UNCHANGED << stdout, stderr, exitCode >>

\* main from its start to its first suspension or its end
main ==
  /\ pc = "start"
  /\ args' = parseArgs(argv)
  /\ UNCHANGED << argv, isTTY, emitted, data, promise >>
  /\ IF Truthy(Get(args', "help"))
     THEN /\ stdout' = Append(stdout, HelpText)
          /\ pc' = "done"
          /\ UNCHANGED << fileReads, listeners, rawJson, payload, destination,
                          saveCalls, stderr, exitCode >>
     ELSE IF ~Truthy(Get(args', "bucket"))
     THEN /\ stdout' = Append(stdout, HelpText)
          /\ Throw(MissingBucket)
          /\ UNCHANGED << fileReads, listeners, rawJson, payload, destination, saveCalls >>
     ELSE CASE getInput(args', isTTY) = "data" ->
                 /\ \E iso \in Clock : AfterInput(args', String(Get(args', "data")), iso)
                 /\ UNCHANGED << fileReads, listeners >>
            [] getInput(args', isTTY) = "file" ->
                 /\ fileReads' = Append(fileReads, Get(args', "input"))
                 /\ pc' = "readFile"
                 /\ UNCHANGED << listeners, rawJson, payload, destination, saveCalls,
                                 stdout, stderr, exitCode >>
            [] getInput(args', isTTY) = "stdin" ->
                 /\ listeners' = TRUE
                 /\ pc' = "readStdin"
                 /\ UNCHANGED << fileReads, rawJson, payload, destination, saveCalls,
                                 stdout, stderr, exitCode >>
            [] OTHER ->
                 /\ Throw(NoInput)
                 /\ UNCHANGED << fileReads, listeners, rawJson, payload, destination,
                                 saveCalls, stdout >>

\* fsPromises.readFile resolves with the text of the file
readFileResolves ==
  /\ pc = "readFile"
  /\ fileReads[Len(fileReads)].t = "str"
  /\ \E text \in FileTexts, iso \in Clock : AfterInput(args, text, iso)
  /\ UNCHANGED << argv, isTTY, args, fileReads, listeners, emitted, data, promise >>

\* fsPromises.readFile rejects: the file is missing or unreadable, or the
\* path is not a string
readFileRejects ==
  /\ pc = "readFile"
  /\ Throw(ReadFileError)
  /\ UNCHANGED << argv, isTTY, args, fileReads, listeners, emitted, data, promise,
                  rawJson, payload, destination, saveCalls, stdout >>

\* process.stdin emits 'data': the listener appends the chunk
stdinData(limit) ==
  /\ listeners
  /\ Len(emitted) < limit
  /\ \E chunk \in Chunks :
       /\ emitted' = Append(emitted, [event |-> "data", chunk |-> chunk])
       /\ data' = data \o chunk
  /\ UNCHANGED << argv, isTTY, pc, args, fileReads, listeners, promise, rawJson,
                  payload, destination, saveCalls, stdout, stderr, exitCode >>

\* a promise that every resolve and reject settles anew
settleAgain(p, state, value) == [state |-> state, value |-> value]

\* resolve(value) and reject(reason) of the promise readFromStdin returned:
\* a settled promise stays as it is
settle(p, state, value) ==
  IF p.state = "pending" THEN [state |-> state, value |-> value] ELSE p

\* process.stdin emits 'end': the listener resolves the promise with `data`;
\* if that settles it (the promise changes), getInput and main run on
stdinEnd(limit) ==
  /\ listeners
  /\ Len(emitted) < limit
  /\ emitted' = Append(emitted, [event |-> "end", chunk |-> <<>>])
  /\ promise' = settle(promise, "resolved", data)
  /\ UNCHANGED << argv, isTTY, args, fileReads, listeners, data >>
  /\ IF promise' = promise
     THEN UNCHANGED << pc, rawJson, payload, destination, saveCalls, stdout, stderr,
                       exitCode >>
     ELSE IF Len(data) = 0
     THEN /\ Throw(NoStdinData)
          /\ UNCHANGED << rawJson, payload, destination, saveCalls, stdout >>
     ELSE \E iso \in Clock : AfterInput(args, data, iso)

\* process.stdin emits 'error': the listener rejects the promise; if that
\* settles it (the promise changes), getInput and main reject
stdinError(limit) ==
  /\ listeners
  /\ Len(emitted) < limit
  /\ emitted' = Append(emitted, [event |-> "error", chunk |-> <<>>])
  /\ promise' = settle(promise, "rejected", <<>>)
  /\ UNCHANGED << argv, isTTY, args, fileReads, listeners, data, rawJson, payload,
                  destination, saveCalls, stdout >>
  /\ IF promise' = promise
     THEN UNCHANGED << pc, stderr, exitCode >>
     ELSE Throw(StdinError)

\* the save call resolves: main prints the confirmation line and returns
saveResolves ==
  /\ pc = "save"
  /\ stdout' = Append(stdout, UploadedLine(payload.bytes, Get(args, "bucket"), destination))
  /\ pc' = "done"
  /\ UNCHANGED << argv, isTTY, args, fileReads, listeners, emitted, data, promise,
                  rawJson, payload, destination, saveCalls, stderr, exitCode >>

\* the save call rejects: main rejects with the client's error
saveRejects ==
  /\ pc = "save"
  /\ Throw(SaveError)
  /\ UNCHANGED << argv, isTTY, args, fileReads, listeners, emitted, data, promise,
                  rawJson, payload, destination, saveCalls, stdout >>

Next ==
  \/ main
  \/ readFileResolves
  \/ readFileRejects
  \/ stdinData(MaxEvents)
  \/ stdinEnd(MaxEvents)
  \/ stdinError(MaxEvents)
  \/ saveResolves
  \/ saveRejects

Spec == Init /\ [][Next]_vars

\* the same program with more events on standard input
NextStdin ==
  \/ main
  \/ readFileResolves
  \/ readFileRejects
  \/ stdinData(MaxStdinEvents)
  \/ stdinEnd(MaxStdinEvents)
  \/ stdinError(MaxStdinEvents)
  \/ saveResolves
  \/ saveRejects

SpecStdin == Init /\ [][NextStdin]_vars

\* the first step of main alone, which parses the command line, on longer
\* command lines
NextParse == main

SpecParse == InitParse /\ [][NextParse]_vars

\* ---------------------------------------------------------------- the command line, read declaratively
\* the canonical option names
Canonical ==
  { "bucket", "destination", "input", "data", "stdin", "project", "credentials",
    "cacheControl", "compact", "dryRun", "help" }

\* a flag token without its leading dashes
FlagBody(token) == stripLeadingDashes(token)

\* the name a flag token carries: the text between its leading dashes and
\* its first '=', in lower case
FlagName(token) ==
  LET body == FlagBody(token)
  IN toLowerCase(IF indexOf(body, "=") = -1 THEN body
                 ELSE sliceTo(body, indexOf(body, "=")))

\* the canonical option a token names, "" when it is no flag or its name is
\* no spelling of an option
OptionOf(token) ==
  LET found == lookup(FlagName(token))
  IN IF startsWith(token, <<"-">>) /\ found.kind = "name" THEN found.name ELSE ""

RECURSIVE OptionsOf(_)
\* the option each token of a command line names
OptionsOf(tokens) ==
  IF tokens = <<>> THEN <<>> ELSE <<OptionOf(Head(tokens))>> \o OptionsOf(Tail(tokens))

\* the positions where option k occurs in a list of named options.  A token
\* taken as the value of the flag before it does not start with '-', so it
\* is never an occurrence.
PositionsOf(named, k) == { i \in 1..Len(named) : named[i] = k }

Occurrences(tokens, k) == PositionsOf(OptionsOf(tokens), k)

\* option k is given on the command line
Given(k) == Occurrences(argv, k) # {}

\* the value the occurrence at i assigns: its inline value, else the token
\* after it unless that is a flag or absent, else true
OccurrenceValue(tokens, i) ==
  LET body == FlagBody(tokens[i])
  IN IF indexOf(body, "=") # -1 THEN Str(slice(body, indexOf(body, "=") + 1))
     ELSE IF i < Len(tokens) /\ ~startsWith(tokens[i + 1], <<"-">>) THEN Str(tokens[i + 1])
     ELSE True

Last(S) == CHOOSE i \in S : \A j \in S : j <= i

\* main has called getInput
GetInputCalled ==
  pc # "start" /\ ~Truthy(Get(args, "help")) /\ Truthy(Get(args, "bucket"))

\* ---------------------------------------------------------------- claims
\* C1: whenever the dry-run flag is given on the command line, in any
\* spelling and with or without a value, save is never invoked.
DryRunNeverSaves == Given("dryRun") => saveCalls = <<>>

ExpectedError ==
  IF ~Truthy(Get(args, "bucket")) THEN MissingBucket
  ELSE IF saveCalls # <<>> THEN SaveError
  ELSE IF payload.ok THEN PathTypeError
  ELSE IF rawJson.t = "str" THEN InvalidJSON
  ELSE IF fileReads # <<>> THEN ReadFileError
  ELSE IF promise.state = "rejected" THEN StdinError
  ELSE IF promise.state = "resolved" THEN NoStdinData
  ELSE NoInput

\* the run displayed help because help was asked for, completed a dry run,
\* or completed the upload
Succeeded ==
  \/ Truthy(Get(args, "help")) /\ stdout = <<HelpText>>
  \/ stdout # <<>> /\ stdout[Len(stdout)].kind = "dry-run"
  \/ stdout # <<>> /\ stdout[Len(stdout)].kind = "uploaded"

\* C3: a finished run has exit code 0 exactly when it displayed help on
\* request, completed a dry run or completed the upload; every other finished
\* run has a non-zero exit code and wrote the message of its error, and
\* nothing else, to the error stream.
ExitStatusReflectsOutcome ==
  pc = "done" =>
    /\ exitCode = 0 <=> Succeeded
    /\ exitCode = 0 => stderr = <<>>
    /\ exitCode # 0 => stderr = <<ExpectedError>>

\* a run that ended because the upload failed
UploadFailed == pc = "done" /\ exitCode = 1 /\ stderr = <<SaveError>> /\ saveCalls # <<>>

\* C4 as stated: in every run that ends with a non-zero exit code, save has
\* not been invoked.
NoSaveInFailedRun == (pc = "done" /\ exitCode # 0) => saveCalls = <<>>

\* C4 amended: in every run that ends with a non-zero exit code for another
\* reason than the failure of the save call itself, save has not been
\* invoked; a failed run that did invoke save invoked it once and reports
\* the client's error.
NoSaveInRunFailedBeforeUpload ==
  /\ (pc = "done" /\ exitCode # 0 /\ stderr # <<SaveError>>) => saveCalls = <<>>
  /\ exitCode # 0 => pc = "done"

\* a run that read valid text from standard input and then failed before
\* any upload: a later 'error' event did not fail the run
FailedBeforeUpload ==
  /\ pc = "done"
  /\ exitCode # 0
  /\ saveCalls = <<>>
  /\ promise.state = "resolved"
  /\ rawJson.t = "str"
  /\ Len(emitted) > 2
  /\ emitted[Len(emitted)].event = "error"

\* C5: whenever the data key is in the mapping, whatever its value, getInput
\* returns that value as text and reads neither the file nor standard input.
InlineDataAlwaysWins ==
  (GetInputCalled /\ "data" \in DOMAIN args) =>
    /\ rawJson = Str(String(args["data"]))
    /\ fileReads = <<>>
    /\ ~listeners

\* the destination C6 states for the mapping: the destination option
\* verbatim when present, else the base name of the input option when
\* present, else a generated name
StatedDestination(options, iso) ==
  IF "destination" \in DOMAIN options THEN options["destination"]
  ELSE IF "input" \in DOMAIN options THEN Str(basename(String(options["input"])))
  ELSE Str(<<"d", "o", "c", "u", "m", "e", "n", "t", "-">> \o replaceColonsAndDots(iso) \o <<".", "j", "s", "o", "n">>)

\* C6: once main has called inferDestination (the payload is prepared), the
\* destination is the one the precedence rule states.
DestinationPrecedence ==
  payload.ok => \E iso \in Clock : destination = StatedDestination(args, iso)

\* C7: every key of the mapping parseArgs returned is a canonical option
\* name.
OnlyCanonicalKeys == DOMAIN args \subseteq Canonical

\* C8: for every canonical option, the mapping parseArgs returned holds the
\* value assigned by its last occurrence on the command line, and no value
\* when it does not occur.
LastOccurrenceWins ==
  pc # "start" =>
    LET named == OptionsOf(argv)
    IN /\ \A k \in Canonical \cap DOMAIN args :
            /\ PositionsOf(named, k) # {}
            /\ args[k] = OccurrenceValue(argv, Last(PositionsOf(named, k)))
       /\ \A i \in 1..Len(named) : named[i] \in Canonical => named[i] \in DOMAIN args

\* an option given twice, with different values, in different spellings
RepeatedOption ==
  /\ pc # "start"
  /\ \E k \in Canonical :
       \E i, j \in Occurrences(argv, k) :
         /\ i < j
         /\ j = Last(Occurrences(argv, k))
         /\ FlagName(argv[i]) # FlagName(argv[j])
         /\ OccurrenceValue(argv, i) # OccurrenceValue(argv, j)
         /\ args[k] = OccurrenceValue(argv, j)

\* C9: when none of data, input and stdin is given and standard input is a
\* terminal, getInput fails with the 'no input' error, nothing is attached to
\* or read from standard input, no file is read and save is not invoked.
NoInputFailsWithoutReading ==
  (GetInputCalled /\ ~Given("data") /\ ~Given("input") /\ ~Given("stdin") /\ isTTY) =>
    /\ pc = "done"
    /\ exitCode # 0
    /\ stderr = <<NoInput>>
    /\ rawJson = Undefined
    /\ ~listeners
    /\ emitted = <<>>
    /\ data = <<>>
    /\ promise = Pending
    /\ fileReads = <<>>
    /\ saveCalls = <<>>

\* getInput was called with no input source on a terminal
NoInputOnTerminal ==
  /\ GetInputCalled
  /\ ~Given("data") /\ ~Given("input") /\ ~Given("stdin")
  /\ isTTY
  /\ Given("dryRun")
  /\ stderr = <<NoInput>>

\* the position of the first 'end' or 'error' event in a log, 0 if none
FirstSettling(log) ==
  IF \E i \in 1..Len(log) : log[i].event # "data"
  THEN CHOOSE i \in 1..Len(log) :
         log[i].event # "data" /\ \A j \in 1..(i - 1) : log[j].event = "data"
  ELSE 0

RECURSIVE ConcatChunks(_)
\* the chunks of a log of 'data' events put together in order
ConcatChunks(log) ==
  IF log = <<>> THEN <<>> ELSE Head(log).chunk \o ConcatChunks(Tail(log))

\* C10: the promise of readFromStdin stays pending until 'end' or 'error'
\* is emitted; the first of them settles it for good: 'end' resolves it with
\* the chunks received before it, in order, 'error' rejects it; getInput
\* turns an empty resolved text into the 'empty input' failure and returns
\* any other resolved text.
StdinReadToCompletion ==
  /\ ~listeners => (promise = Pending /\ emitted = <<>>)
  /\ listeners =>
       LET at == FirstSettling(emitted)
           text == ConcatChunks(SubSeq(emitted, 1, at - 1))
       IN /\ at = 0 => (promise = Pending /\ pc = "readStdin")
          /\ (at > 0 /\ emitted[at].event = "end") =>
               /\ promise = [state |-> "resolved", value |-> text]
               /\ text = <<>> =>
                    (pc = "done" /\ rawJson = Undefined /\ stderr = <<NoStdinData>>)
               /\ text # <<>> => rawJson = Str(text)
          /\ (at > 0 /\ emitted[at].event = "error") =>
               /\ promise.state = "rejected"
               /\ pc = "done"
               /\ rawJson = Undefined
               /\ stderr = <<StdinError>>

\* two different chunks, then 'end', then 'error': the promise is resolved
\* with the two chunks in order
ResolvedThenError ==
  /\ Len(emitted) = 4
  /\ emitted[1].event = "data" /\ emitted[2].event = "data"
  /\ emitted[1].chunk # emitted[2].chunk
  /\ emitted[3].event = "end"
  /\ emitted[4].event = "error"
  /\ promise = [state |-> "resolved", value |-> emitted[1].chunk \o emitted[2].chunk]

====
